---- MODULE Spec2Model ----
(***************************************************************************)
(* Gene set collection extraction of scripts/GEM_GSC_extraction.ipynb.     *)
(*                                                                         *)
(* The notebook is a sequence of cells that share the kernel's global      *)
(* variables (subsystems, metabolites, gene_assoc, merged_list) and write  *)
(* two .gmt files.  A state is the loaded model, the kernel's globals, the *)
(* two files and the position of a top-to-bottom run; every code cell is   *)
(* one action.  Strings are sequences of one-character strings, so that    *)
(* substring tests, apostrophe removal and tab joins are computed as       *)
(* Python computes them.                                                   *)
(***************************************************************************)
EXTENDS Integers, Sequences, FiniteSets, TLC

VARIABLES
    model,        \* the loaded cobra model: reactions, metabolites, genes
    subsystems,   \* notebook global `subsystems`
    metabolites,  \* notebook global `metabolites`
    gene_assoc,   \* notebook global `gene_assoc` (shared by both stages)
    merged_list,  \* notebook global `merged_list`
    pc,           \* the cell a top-to-bottom run executes next
    err,          \* the exception that stopped the run, or "none"
    dirExists,    \* whether ../data/gene_set_collections exists
    files,        \* the two output files: [exists, lines]
    written,      \* per file, the (name, gene ids) pairs this run's write joined
    run,          \* the number of the run: the kernel is restarted between runs
    prev,         \* `written` as the previous run left it
    tcga          \* the R session of the walkthrough: the GDC's files and the session's objects

vars == <<model, subsystems, metabolites, gene_assoc, merged_list, pc, err,
          dirExists, files, written, run, prev, tcga>>

----------------------------------------------------------------------------
(* Bounds of the explored models.                                          *)

NumGenes == 2
NumReactions == 2
NumMetabolites == 2

\* Top-to-bottom runs of the notebook on one model, one after the other.
MaxRuns == 2

\* Subjects and files (one per sample) of the queried project.
NumSubjects == 2
MaxSamples == 5

----------------------------------------------------------------------------
(* Characters and strings.                                                 *)

Apostrophe == "'"
Tab == "\t"
Newline == "\n"

\* Code point of the characters that occur in names (Python compares strings
\* by code point; numpy sorts them the same way).
CharCode(c) ==
    CASE c = "\t" -> 9
      [] c = "\n" -> 10
      [] c = "'"  -> 39
      [] c = "["  -> 91
      [] c = "]"  -> 93
      [] c = "a"  -> 97
      [] c = "b"  -> 98
      [] c = "c"  -> 99
      [] c = "m"  -> 109
      [] c = "n"  -> 110
      [] OTHER    -> 200

\* a < b for Python strings: lexicographic by code point, a proper prefix first.
RECURSIVE StrLess(_, _)
StrLess(a, b) ==
    IF b = <<>> THEN FALSE
    ELSE IF a = <<>> THEN TRUE
    ELSE IF CharCode(Head(a)) < CharCode(Head(b)) THEN TRUE
    ELSE IF CharCode(Head(a)) > CharCode(Head(b)) THEN FALSE
    ELSE StrLess(Tail(a), Tail(b))

\* Python `s in x` for two strings: s occurs in x as a contiguous part.
IsSubstring(s, x) ==
    \E i \in 0..(Len(x) - Len(s)) : SubSeq(x, i + 1, i + Len(s)) = s

\* Python x.replace(old, new) for a one-character `old`: every occurrence.
RECURSIVE StrReplace(_, _, _)
StrReplace(x, old, new) ==
    IF x = <<>> THEN <<>>
    ELSE IF Head(x) = old THEN new \o StrReplace(Tail(x), old, new)
    ELSE <<Head(x)>> \o StrReplace(Tail(x), old, new)

\* Python sep.join(parts) for a list of strings.
RECURSIVE StrJoin(_, _)
StrJoin(sep, parts) ==
    IF parts = <<>> THEN <<>>
    ELSE IF Len(parts) = 1 THEN parts[1]
    ELSE parts[1] \o sep \o StrJoin(sep, Tail(parts))

Range(s) == {s[i] : i \in 1..Len(s)}

\* The least string of a non-empty set.
MinStr(S) == CHOOSE a \in S : \A b \in S \ {a} : StrLess(a, b)

\* np.unique(list): the distinct values, ascending.
RECURSIVE SortedSeq(_)
SortedSeq(S) ==
    IF S = {} THEN <<>>
    ELSE LET a == MinStr(S) IN <<a>> \o SortedSeq(S \ {a})

NpUnique(list) == SortedSeq(Range(list))

\* As ListsOfSet, but of a list that was concatenated, not united: every
\* element comes twice.
ListsOfSet_Twice(S) ==
    {f \o f : f \in {g \in [1..Cardinality(S) -> S] :
                        \A i, j \in 1..Cardinality(S) : g[i] = g[j] => i = j}}

\* list(a_set): the elements once each, in an order the hash table decides.
ListsOfSet(S) ==
    {f \in [1..Cardinality(S) -> S] : \A i, j \in 1..Cardinality(S) : f[i] = f[j] => i = j}

\* One list per set of `sets`, each in some iteration order.
ListsOfSets(sets) ==
    {ga \in [1..Len(sets) -> UNION {ListsOfSet(sets[i]) : i \in 1..Len(sets)}] :
        \A i \in 1..Len(sets) : ga[i] \in ListsOfSet(sets[i])}

----------------------------------------------------------------------------
(* The models the run is explored on.                                      *)

\* Gene ids are strings of one token each: an id holds no tab and no newline.
GeneTokens == <<"G1", "G2", "G3", "G4">>

GeneIds == {<<GeneTokens[k]>> : k \in 1..NumGenes}

\* Subsystem labels: one contained in another, one empty, one with an
\* apostrophe, one with a tab.
Labels == {<<>>, <<"a">>, <<"a", "b">>, <<"a", "'">>, <<"a", "\t">>}

\* Metabolite names: two that differ by an apostrophe only, one that is
\* nothing but apostrophes, one with a tab.
MetNames == {<<"a">>, <<"a", "'">>, <<"'", "'">>, <<"\t">>}

Compartments == {<<"c">>, <<"m">>}

ReactionRecords == [subsystem : Labels, genes : SUBSET GeneIds]

MetaboliteRecords ==
    [name : MetNames, compartment : Compartments, reactions : SUBSET (1..NumReactions)]

\* Models that vary the reactions' labels, over fixed metabolites.
SubsystemModels ==
    {[reactions |-> rs,
      metabolites |-> [i \in 1..NumMetabolites |->
                          [name |-> <<"a">>,
                           compartment |-> IF i = 1 THEN <<"c">> ELSE <<"m">>,
                           reactions |-> {1}]],
      genes |-> GeneIds] : rs \in [1..NumReactions -> ReactionRecords]}

\* Models that vary the metabolites, over reactions of one label.  Compartment
\* tags only ever meet string concatenation and equality, so the first
\* metabolite is placed in compartment c.
MetaboliteModels ==
    {[reactions |-> [i \in 1..NumReactions |-> [subsystem |-> <<"a">>, genes |-> gs[i]]],
      metabolites |-> ms,
      genes |-> GeneIds] :
        gs \in [1..NumReactions -> SUBSET GeneIds],
        ms \in {x \in [1..NumMetabolites -> MetaboliteRecords] : x[1].compartment = <<"c">>}}

Models == SubsystemModels \cup MetaboliteModels

\* What an output file holds before the run, when it exists.
StaleLines == << <<"b", "\t", "n", "a", "\t", "G1", "\n">> >>

Absent == [exists |-> FALSE, lines |-> <<>>]

FileSystems ==
    { [dir |-> FALSE, file |-> Absent],
      [dir |-> TRUE, file |-> Absent],
      [dir |-> TRUE, file |-> [exists |-> TRUE, lines |-> StaleLines]] }

\* The R session of the walkthrough, not started.
NoSession ==
    [at |-> "query", gdc |-> <<>>, query |-> <<>>, q |-> <<>>,
     paired_subjects |-> <<>>, keep |-> <<>>, barcodes |-> <<>>]

Init ==
    /\ model \in Models
    /\ subsystems = <<>>
    /\ metabolites = <<>>
    /\ gene_assoc = <<>>
    /\ merged_list = <<>>
    /\ pc = "subsystem_assoc"
    /\ err = "none"
    /\ \E fs \in FileSystems :
          /\ dirExists = fs.dir
          /\ files = [subsystem |-> fs.file, metabolite |-> fs.file]
    /\ written = [subsystem |-> <<>>, metabolite |-> <<>>]
    /\ run = 1
    /\ prev = [subsystem |-> <<>>, metabolite |-> <<>>]
    /\ tcga = NoSession

----------------------------------------------------------------------------
(* Subsystem-gene associations.                                            *)

\* As SubsystemGeneSets, but the first matching reaction only.
SubsystemGeneSets_FirstOnly(s) ==
    LET hit == SelectSeq([i \in 1..Len(model.reactions) |-> i],
                         LAMBDA i : IsSubstring(s, model.reactions[i].subsystem))
    IN  [k \in 1..1 |-> model.reactions[hit[k]].genes]

\* [set(x.genes) for x in model.reactions if s in x.subsystem]
SubsystemGeneSets(s) ==
    LET hit == SelectSeq([i \in 1..Len(model.reactions) |-> i],
                         LAMBDA i : IsSubstring(s, model.reactions[i].subsystem))
    IN  [k \in 1..Len(hit) |-> model.reactions[hit[k]].genes]

\* set.union(*sets): defined for a non-empty list of sets only.
SetUnion(sets) == UNION Range(sets)

\* A loop `for g in groups: ... set.union(*lists[g]) ... append`: the number
\* of iterations that complete, the loop raising TypeError at the first
\* group whose list of sets is empty.
Completed(lists) ==
    IF \E i \in 1..Len(lists) : lists[i] = <<>>
    THEN (CHOOSE i \in 1..Len(lists) :
            lists[i] = <<>> /\ \A j \in 1..(i - 1) : lists[j] # <<>>) - 1
    ELSE Len(lists)

\* The cell "retrieve gene associations for all subsystems".
SubsystemAssocCell ==
    /\ pc = "subsystem_assoc" /\ err = "none"
    /\ LET subs  == NpUnique([i \in 1..Len(model.reactions) |-> model.reactions[i].subsystem])
           lists == [i \in 1..Len(subs) |-> SubsystemGeneSets(subs[i])]
           n     == Completed(lists)
       IN  /\ subsystems' = subs
           /\ gene_assoc' \in ListsOfSets([i \in 1..n |-> SetUnion(lists[i])])
           /\ IF n = Len(lists)
              THEN pc' = "subsystem_filter" /\ err' = err
              ELSE pc' = pc /\ err' = "TypeError"
    /\ UNCHANGED <<model, metabolites, merged_list, dirExists, files, written, run, prev, tcga>>

\* As HasGenes, but keeping the empty list too.
HasGenes_OrNone(x) == Len(x) >= 0

\* len(x) > 0, the test of both filter cells
HasGenes(x) == Len(x) > 0

\* [x for i, x in enumerate(names) if len(assoc[i]) > 0]
KeepNames(names, assoc) ==
    LET keep == SelectSeq([i \in 1..Len(names) |-> i], LAMBDA i : HasGenes(assoc[i]))
    IN  [k \in 1..Len(keep) |-> names[keep[k]]]

\* As KeepAssoc, but the gene lists left unfiltered.
KeepAssoc_All(assoc) == assoc

\* [x for x in assoc if len(x) > 0]
KeepAssoc(assoc) == SelectSeq(assoc, HasGenes)

\* The cell "remove subsystems with no gene associations": assoc[i] raises
\* IndexError when gene_assoc is shorter than the list of names.
SubsystemFilterCell ==
    /\ pc = "subsystem_filter" /\ err = "none"
    /\ IF Len(gene_assoc) < Len(subsystems)
       THEN /\ err' = "IndexError"
            /\ UNCHANGED <<subsystems, gene_assoc, pc>>
       ELSE /\ subsystems' = KeepNames(subsystems, gene_assoc)
            /\ gene_assoc' = KeepAssoc(gene_assoc)
            /\ pc' = "subsystem_write"
            /\ err' = err
    /\ UNCHANGED <<model, metabolites, merged_list, dirExists, files, written, run, prev, tcga>>

\* '\t'.join([name] + ['na'] + genes) + '\n'
MergedLine(name, genes) ==
    StrJoin(<<Tab>>, <<name>> \o << <<"n", "a">> >> \o genes) \o <<Newline>>

\* As OpenRaises, but a missing directory goes unnoticed.
OpenRaises_Never(dir) == FALSE

\* open(path, 'w') raises FileNotFoundError when the directory of the path
\* does not exist.
OpenRaises(dir) == ~dir

\* As WriteLines, but the file opened with 'a': the old lines stay.
WriteLines_Append(old, lines) == [exists |-> TRUE, lines |-> old.lines \o lines]

\* with open(path, 'w') as f: f.writelines(lines): the file is created or
\* truncated, and holds the lines.
WriteLines(old, lines) == [exists |-> TRUE, lines |-> lines]

\* The body of both write cells: build every line, then open the file for
\* writing (which truncates it) and write the lines.
WriteCell(f, names, next) ==
    IF Len(gene_assoc) < Len(names)
    THEN /\ err' = "IndexError"
         /\ UNCHANGED <<merged_list, files, written, pc>>
    ELSE /\ merged_list' = [i \in 1..Len(names) |-> MergedLine(names[i], gene_assoc[i])]
         /\ IF ~OpenRaises(dirExists)
            THEN /\ files' = [files EXCEPT ![f] = WriteLines(files[f], merged_list')]
                 /\ written' = [written EXCEPT ![f] =
                        [i \in 1..Len(names) |-> [name |-> names[i], genes |-> gene_assoc[i]]]]
                 /\ pc' = next
                 /\ err' = err
            ELSE /\ err' = "FileNotFoundError"
                 /\ UNCHANGED <<files, written, pc>>

\* As SubsystemWriteCell, but the writing put off: the run goes on to the
\* metabolite section with the subsystem file untouched.
SubsystemWriteCell_Deferred ==
    /\ pc = "subsystem_write" /\ err = "none"
    /\ pc' = "opt1_names"
    /\ UNCHANGED <<model, subsystems, metabolites, gene_assoc, merged_list, err, dirExists, files, written, run, prev, tcga>>

\* The cell "write subsystem-gene associations to .gmt file".
SubsystemWriteCell ==
    /\ pc = "subsystem_write" /\ err = "none"
    /\ WriteCell("subsystem", subsystems, "opt1_names")
    /\ UNCHANGED <<model, subsystems, metabolites, gene_assoc, dirExists, run, prev, tcga>>

----------------------------------------------------------------------------
(* Metabolite-gene associations.                                           *)

\* x.name + '[' + x.compartment + ']'
CompartmentName(m) == m.name \o <<"[">> \o m.compartment \o <<"]">>

\* list(a_set) as a sequence whose order plays no part in what follows.
RECURSIVE SeqOfSet(_)
SeqOfSet(S) ==
    IF S = {} THEN <<>>
    ELSE LET x == CHOOSE y \in S : TRUE IN <<x>> \o SeqOfSet(S \ {x})

\* As NameReactionSets, but the first metabolite of that name only.
NameReactionSets_FirstOnly(met_name) ==
    LET hit == SelectSeq([i \in 1..Len(model.metabolites) |-> i],
                         LAMBDA i : model.metabolites[i].name = met_name)
    IN  [k \in 1..(IF hit = <<>> THEN 0 ELSE 1) |-> model.metabolites[hit[k]].reactions]

\* Option 2: [set(m.reactions) for m in model.metabolites if m.name == met_name]
NameReactionSets(met_name) ==
    LET hit == SelectSeq([i \in 1..Len(model.metabolites) |-> i],
                         LAMBDA i : model.metabolites[i].name = met_name)
    IN  [k \in 1..Len(hit) |-> model.metabolites[hit[k]].reactions]

\* Option 2: [set(r.genes) for r in reactions], reactions the union above;
\* the empty list when either union has nothing to unite.
NameGeneSets(met_name) ==
    LET sets == NameReactionSets(met_name)
    IN  IF sets = <<>> THEN <<>>
        ELSE LET rs == SeqOfSet(SetUnion(sets))
             IN  [k \in 1..Len(rs) |-> model.reactions[rs[k]].genes]

\* As MetaboliteGeneSets, but over the reactions of every metabolite of m's name.
MetaboliteGeneSets_ByName(m) == NameGeneSets(m.name)

\* Option 1: [set(r.genes) for r in list(m.reactions)]
MetaboliteGeneSets(m) ==
    LET rs == SeqOfSet(m.reactions)
    IN  [k \in 1..Len(rs) |-> model.reactions[rs[k]].genes]

\* Option 1 cell "combine metabolite names with their compartment
\* abbreviation", run when the user stands at `at` and moves on to `next`.
Opt1Names(at, next) ==
    /\ pc = at /\ err = "none"
    /\ metabolites' = [i \in 1..Len(model.metabolites) |->
                          CompartmentName(model.metabolites[i])]
    /\ pc' = next
    /\ UNCHANGED <<model, subsystems, gene_assoc, merged_list, err, dirExists, files, written, run, prev, tcga>>

\* As Opt1Assoc, but the metabolite file opened for writing before the
\* extraction.
Opt1Assoc_OpenFirst(at, next) ==
    /\ pc = at /\ err = "none"
    /\ LET lists == [i \in 1..Len(model.metabolites) |->
                        MetaboliteGeneSets(model.metabolites[i])]
           n     == Completed(lists)
       IN  /\ gene_assoc' \in ListsOfSets([i \in 1..n |-> SetUnion(lists[i])])
           /\ IF n = Len(lists)
              THEN pc' = next /\ err' = err
              ELSE pc' = pc /\ err' = "TypeError"
    /\ files' = IF OpenRaises(dirExists) THEN files
                ELSE [files EXCEPT !["metabolite"] = WriteLines(@, <<>>)]
    /\ UNCHANGED <<model, subsystems, metabolites, merged_list, dirExists, written, run, prev, tcga>>

\* Option 1 cell "retrieve gene associations for all metabolites".
Opt1Assoc(at, next) ==
    /\ pc = at /\ err = "none"
    /\ LET lists == [i \in 1..Len(model.metabolites) |->
                        MetaboliteGeneSets(model.metabolites[i])]
           n     == Completed(lists)
       IN  /\ gene_assoc' \in ListsOfSets([i \in 1..n |-> SetUnion(lists[i])])
           /\ IF n = Len(lists)
              THEN pc' = next /\ err' = err
              ELSE pc' = pc /\ err' = "TypeError"
    /\ UNCHANGED <<model, subsystems, metabolites, merged_list, dirExists, files, written, run, prev, tcga>>

\* Option 2 cell "ignore compartments":
\* np.unique([x.name for x in model.metabolites])
Opt2Names(at, next) ==
    /\ pc = at /\ err = "none"
    /\ metabolites' = NpUnique([i \in 1..Len(model.metabolites) |-> model.metabolites[i].name])
    /\ pc' = next
    /\ UNCHANGED <<model, subsystems, gene_assoc, merged_list, err, dirExists, files, written, run, prev, tcga>>

\* Option 2 cell "retrieve gene associations for all metabolites": the loop
\* is over the global `metabolites`, whatever cell bound it last.
Opt2Assoc(at, next) ==
    /\ pc = at /\ err = "none"
    /\ LET lists == [i \in 1..Len(metabolites) |-> NameGeneSets(metabolites[i])]
           n     == Completed(lists)
       IN  /\ gene_assoc' \in ListsOfSets([i \in 1..n |-> SetUnion(lists[i])])
           /\ IF n = Len(lists)
              THEN pc' = next /\ err' = err
              ELSE pc' = pc /\ err' = "TypeError"
    /\ UNCHANGED <<model, subsystems, metabolites, merged_list, dirExists, files, written, run, prev, tcga>>

\* The cell "remove metabolites with no gene associations".
MetFilter(at, next) ==
    /\ pc = at /\ err = "none"
    /\ IF Len(gene_assoc) < Len(metabolites)
       THEN /\ err' = "IndexError"
            /\ UNCHANGED <<metabolites, gene_assoc, pc>>
       ELSE /\ metabolites' = KeepNames(metabolites, gene_assoc)
            /\ gene_assoc' = KeepAssoc(gene_assoc)
            /\ pc' = next
            /\ err' = err
    /\ UNCHANGED <<model, subsystems, merged_list, dirExists, files, written, run, prev, tcga>>

\* The five cells in their turn of a top-to-bottom run.
Opt1NamesCell == Opt1Names("opt1_names", "opt1_assoc")

Opt1AssocCell == Opt1Assoc("opt1_assoc", "opt2_names")

\* As Opt2NamesCell, but the cell skipped: the Option 1 names stay bound.
Opt2NamesCell_Skipped ==
    /\ pc = "opt2_names" /\ err = "none"
    /\ pc' = "opt2_assoc"
    /\ UNCHANGED <<model, subsystems, metabolites, gene_assoc, merged_list, err, dirExists, files, written, run, prev, tcga>>

Opt2NamesCell == Opt2Names("opt2_names", "opt2_assoc")

Opt2AssocCell == Opt2Assoc("opt2_assoc", "met_filter")

MetFilterCell == MetFilter("met_filter", "met_sanitize")

\* As RemoveApostrophes, but x.replace("'", "", 1): the first apostrophe only.
RemoveApostrophes_FirstOnly(x) ==
    IF \E i \in 1..Len(x) : x[i] = Apostrophe
    THEN LET i == CHOOSE i \in 1..Len(x) :
                     x[i] = Apostrophe /\ \A j \in 1..(i - 1) : x[j] # Apostrophe
         IN  SubSeq(x, 1, i - 1) \o SubSeq(x, i + 1, Len(x))
    ELSE x

\* x.replace("'", "")
RemoveApostrophes(x) == StrReplace(x, Apostrophe, <<>>)

\* [x.replace("'", "") for x in metabolites]
SanitizeNames(names) == [i \in 1..Len(names) |-> RemoveApostrophes(names[i])]

\* As MetSanitizeCell, but renaming the metabolites of the model as well.
MetSanitizeCell_InPlace ==
    /\ pc \in {"met_sanitize", "met_write"} /\ err = "none"
    /\ metabolites' = SanitizeNames(metabolites)
    /\ model' = [model EXCEPT !.metabolites =
                    [i \in 1..Len(model.metabolites) |->
                        [model.metabolites[i] EXCEPT !.name = RemoveApostrophes(@)]]]
    /\ pc' = "met_write"
    /\ UNCHANGED <<subsystems, gene_assoc, merged_list, err, dirExists, files, written, run, prev, tcga>>

\* The cell "some metabolites contain an apostrophe ...": run in its turn, and
\* run again any number of times before the write cell.
MetSanitizeCell ==
    /\ pc \in {"met_sanitize", "met_write"} /\ err = "none"
    /\ metabolites' = SanitizeNames(metabolites)
    /\ pc' = "met_write"
    /\ UNCHANGED <<model, subsystems, gene_assoc, merged_list, err, dirExists, files, written, run, prev, tcga>>

\* The cell "write metabolite-gene associations to .gmt file".
MetWriteCell ==
    /\ pc = "met_write" /\ err = "none"
    /\ WriteCell("metabolite", metabolites, "done")
    /\ UNCHANGED <<model, subsystems, metabolites, gene_assoc, dirExists, run, prev, tcga>>

Next ==
    \/ SubsystemAssocCell
    \/ SubsystemFilterCell
    \/ SubsystemWriteCell
    \/ Opt1NamesCell
    \/ Opt1AssocCell
    \/ Opt2NamesCell
    \/ Opt2AssocCell
    \/ MetFilterCell
    \/ MetSanitizeCell
    \/ MetWriteCell

Spec == Init /\ [][Next]_vars

\* The kernel is restarted and the notebook run again, top to bottom, on the
\* same model file: the globals are gone, the files stay.
Restart ==
    /\ pc = "done" /\ run < MaxRuns
    /\ run' = run + 1
    /\ prev' = written
    /\ written' = [subsystem |-> <<>>, metabolite |-> <<>>]
    /\ subsystems' = <<>>
    /\ metabolites' = <<>>
    /\ gene_assoc' = <<>>
    /\ merged_list' = <<>>
    /\ pc' = "subsystem_assoc"
    /\ err' = "none"
    /\ UNCHANGED <<model, dirExists, files, tcga>>

NextRerun ==
    \/ Next
    \/ Restart

\* Runs of the notebook, one after the other.
SpecRerun == Init /\ [][NextRerun]_vars

\* One step of a loop `for g in groups: genes = [...]; genes =
\* list(set.union(*genes)); gene_assoc.append([x.id for x in genes])`, where
\* lists[i] is the list of sets the body builds for the i-th group: the loop
\* asks for the next group, which is the one after those whose list has been
\* appended, and ends when none is left; the body raises TypeError when it
\* has no set to unite.
LoopTurn(lists, next) ==
    IF Len(gene_assoc) >= Len(lists)
    THEN /\ pc' = next
         /\ UNCHANGED <<gene_assoc, err>>
    ELSE LET sets == lists[Len(gene_assoc) + 1]
         IN  IF sets = <<>>
             THEN /\ err' = "TypeError"
                  /\ UNCHANGED <<gene_assoc, pc>>
             ELSE /\ \E l \in ListsOfSet(SetUnion(sets)) : gene_assoc' = Append(gene_assoc, l)
                  /\ UNCHANGED <<pc, err>>

\* The subsystem association cell up to its loop:
\* subsystems = np.unique(...); gene_assoc = []
SubsystemAssocBegin ==
    /\ pc = "subsystem_assoc" /\ err = "none"
    /\ subsystems' = NpUnique([i \in 1..Len(model.reactions) |-> model.reactions[i].subsystem])
    /\ gene_assoc' = <<>>
    /\ pc' = "subsystem_assoc_loop"
    /\ UNCHANGED <<model, metabolites, merged_list, err, dirExists, files, written, run, prev, tcga>>

\* As SubsystemAssocTurn, but the loop starts over when it has run out of
\* subsystems.
SubsystemAssocTurn_StartsOver ==
    /\ pc = "subsystem_assoc_loop" /\ err = "none"
    /\ IF Len(gene_assoc) >= Len(subsystems)
       THEN /\ gene_assoc' = <<>>
            /\ UNCHANGED <<pc, err>>
       ELSE LoopTurn([i \in 1..Len(subsystems) |-> SubsystemGeneSets(subsystems[i])],
                     "subsystem_filter")
    /\ UNCHANGED <<model, subsystems, metabolites, merged_list, dirExists, files, written, run, prev, tcga>>

\* for s in subsystems: ...
SubsystemAssocTurn ==
    /\ pc = "subsystem_assoc_loop" /\ err = "none"
    /\ LoopTurn([i \in 1..Len(subsystems) |-> SubsystemGeneSets(subsystems[i])],
                     "subsystem_filter")
    /\ UNCHANGED <<model, subsystems, metabolites, merged_list, dirExists, files, written, run, prev, tcga>>

\* The Option 1 association cell up to its loop: gene_assoc = []
Opt1AssocBegin ==
    /\ pc = "opt1_assoc" /\ err = "none"
    /\ gene_assoc' = <<>>
    /\ pc' = "opt1_assoc_loop"
    /\ UNCHANGED <<model, subsystems, metabolites, merged_list, err, dirExists, files, written, run, prev, tcga>>

\* for m in model.metabolites: ...
Opt1AssocTurn ==
    /\ pc = "opt1_assoc_loop" /\ err = "none"
    /\ LoopTurn([i \in 1..Len(model.metabolites) |->
                    MetaboliteGeneSets(model.metabolites[i])], "opt2_names")
    /\ UNCHANGED <<model, subsystems, metabolites, merged_list, dirExists, files, written, run, prev, tcga>>

\* The Option 2 association cell up to its loop: gene_assoc = []
Opt2AssocBegin ==
    /\ pc = "opt2_assoc" /\ err = "none"
    /\ gene_assoc' = <<>>
    /\ pc' = "opt2_assoc_loop"
    /\ UNCHANGED <<model, subsystems, metabolites, merged_list, err, dirExists, files, written, run, prev, tcga>>

\* for met_name in metabolites: ...
Opt2AssocTurn ==
    /\ pc = "opt2_assoc_loop" /\ err = "none"
    /\ LoopTurn([i \in 1..Len(metabolites) |-> NameGeneSets(metabolites[i])], "met_filter")
    /\ UNCHANGED <<model, subsystems, metabolites, merged_list, dirExists, files, written, run, prev, tcga>>

\* A top-to-bottom run in which the loops of the three association cells
\* take one step per group.
NextSteps ==
    \/ SubsystemAssocBegin
    \/ SubsystemAssocTurn
    \/ SubsystemFilterCell
    \/ SubsystemWriteCell
    \/ Opt1NamesCell
    \/ Opt1AssocBegin
    \/ Opt1AssocTurn
    \/ Opt2NamesCell
    \/ Opt2AssocBegin
    \/ Opt2AssocTurn
    \/ MetFilterCell
    \/ MetSanitizeCell
    \/ MetWriteCell

\* "Run All" runs the next cell as long as no cell has raised.
SpecSteps == Init /\ [][NextSteps]_vars /\ WF_vars(NextSteps)

\* A session in which the user, the subsystem cells done, stands at the top of
\* the metabolite section and runs its four cells by hand: any of them, any
\* number of times, in any order, and then the filter cell and what follows.
\* A cell that raises ends the session.
MetSection == "opt1_names"

ManualOpt1Names == Opt1Names(MetSection, MetSection)

ManualOpt1Assoc == Opt1Assoc(MetSection, MetSection)

ManualOpt2Names == Opt2Names(MetSection, MetSection)

ManualOpt2Assoc == Opt2Assoc(MetSection, MetSection)

ManualMetFilter == MetFilter(MetSection, "met_sanitize")

NextManual ==
    \/ SubsystemAssocCell
    \/ SubsystemFilterCell
    \/ SubsystemWriteCell
    \/ ManualOpt1Names
    \/ ManualOpt1Assoc
    \/ ManualOpt2Names
    \/ ManualOpt2Assoc
    \/ ManualMetFilter
    \/ MetSanitizeCell
    \/ MetWriteCell

SpecManual == Init /\ [][NextManual]_vars

----------------------------------------------------------------------------
(* The walkthrough's paired-sample selection (R).                          *)

PrimaryTumor == "Primary Tumor"
SolidTissueNormal == "Solid Tissue Normal"

\* Sample types of the files of a project; the first two are the queried ones.
SampleTypes == {PrimaryTumor, SolidTissueNormal, "Metastatic"}

Subjects == 1..NumSubjects

\* The files of the project at the GDC: one per sample, each of a subject and
\* a sample type.  The barcode of a sample (column `cases`) is unique; it is
\* the file's position here.
Projects ==
    UNION {[1..n -> [submitter_id : Subjects, sample_type : SampleTypes]] : n \in 0..MaxSamples}

\* GDCquery(..., sample.type = types): the rows of the files of these types.
GDCquery(gdc, types) ==
    SelectSeq([i \in 1..Len(gdc) |->
                  [cases |-> i,
                   submitter_id |-> gdc[i].submitter_id,
                   sample_type |-> gdc[i].sample_type]],
              LAMBDA r : r.sample_type \in types)

\* q$cases.submitter_id[q$sample_type == type]
SubmitterIds(q, type) ==
    LET rows == SelectSeq(q, LAMBDA r : r.sample_type = type)
    IN  [k \in 1..Len(rows) |-> rows[k].submitter_id]

\* unique(x): the first occurrence of every value, in order.
RECURSIVE Unique(_)
Unique(x) ==
    IF x = <<>> THEN <<>>
    ELSE LET front == Unique(SubSeq(x, 1, Len(x) - 1))
             last  == x[Len(x)]
         IN  IF last \in Range(front) THEN front ELSE Append(front, last)

\* intersect(x, y): the distinct values of x that occur in y.
Intersect(x, y) == Unique(SelectSeq(x, LAMBDA e : e \in Range(y)))

\* sum(q$cases.submitter_id %in% x)
RowsOf(q, x) == Cardinality({i \in 1..Len(q) : q[i].submitter_id = x})

\* As KeepTest, but two samples or more.
KeepTest_AtLeast(n) == n >= 2

\* sum(...) == 2
KeepTest(n) == n = 2

\* x[keep] for a logical vector keep as long as x (NULL when x is empty).
Subset(x, keep) ==
    LET idx == SelectSeq([k \in 1..Len(x) |-> k], LAMBDA k : keep[k])
    IN  [k \in 1..Len(idx) |-> x[idx[k]]]

\* q$cases[q$cases.submitter_id %in% subjects]
CasesOf(q, subjects) ==
    LET rows == SelectSeq(q, LAMBDA r : r.submitter_id \in Range(subjects))
    IN  [k \in 1..Len(rows) |-> rows[k].cases]

\* The chunk "Query the TCGA database".
QueryChunk ==
    /\ tcga.at = "query"
    /\ tcga' = [tcga EXCEPT
                   !.query = GDCquery(tcga.gdc, {PrimaryTumor, SolidTissueNormal}),
                   !.at = "paired"]
    /\ UNCHANGED <<model, subsystems, metabolites, gene_assoc, merged_list, pc, err,
                   dirExists, files, written, run, prev>>

\* The chunk "identify subject IDs that are associated with exactly 1 normal
\* and 1 tumor sample".
PairedChunk ==
    /\ tcga.at = "paired"
    /\ LET q      == tcga.query
           paired == Intersect(SubmitterIds(q, PrimaryTumor),
                               SubmitterIds(q, SolidTissueNormal))
           keep   == [k \in 1..Len(paired) |-> KeepTest(RowsOf(q, paired[k]))]
       IN  tcga' = [tcga EXCEPT
                      !.q = q,
                      !.paired_subjects = paired,
                      !.keep = keep,
                      !.barcodes = CasesOf(q, Subset(paired, keep)),
                      !.at = "done"]
    /\ UNCHANGED <<model, subsystems, metabolites, gene_assoc, merged_list, pc, err,
                   dirExists, files, written, run, prev>>

\* The R session on any project; the notebook is not run.
InitPaired ==
    /\ model = [reactions |-> <<>>, metabolites |-> <<>>, genes |-> {}]
    /\ subsystems = <<>>
    /\ metabolites = <<>>
    /\ gene_assoc = <<>>
    /\ merged_list = <<>>
    /\ pc = "subsystem_assoc"
    /\ err = "none"
    /\ dirExists = TRUE
    /\ files = [subsystem |-> Absent, metabolite |-> Absent]
    /\ written = [subsystem |-> <<>>, metabolite |-> <<>>]
    /\ run = 1
    /\ prev = [subsystem |-> <<>>, metabolite |-> <<>>]
    /\ \E gdc \in Projects : tcga = [NoSession EXCEPT !.gdc = gdc]

NextPaired ==
    \/ QueryChunk
    \/ PairedChunk

SpecPaired == InitPaired /\ [][NextPaired]_vars

----------------------------------------------------------------------------
(* Properties.                                                             *)

FileNames == {"subsystem", "metabolite"}

\* The records of file f, as the write cell of this run joined them.
Records(f) == Range(written[f])

\* The subsystem write cell has run and written its file.
SubsystemFileWritten ==
    pc \notin {"subsystem_assoc", "subsystem_filter", "subsystem_write"}

NoDuplicates(list) == \A i, j \in 1..Len(list) : list[i] = list[j] => i = j

ReactionIds == 1..Len(model.reactions)
MetaboliteIds == 1..Len(model.metabolites)

\* C1: every gene id on the subsystem record named s is a gene of a reaction
\* whose subsystem label is exactly s.
C1_NoExtras ==
    \A rec \in Records("subsystem") : \A g \in Range(rec.genes) :
        \E i \in ReactionIds :
            /\ model.reactions[i].subsystem = rec.name
            /\ g \in model.reactions[i].genes

\* C2: once the subsystem file is written, every label s carried by a
\* reaction with a gene has a record named s in it, a line of the file, that
\* lists every gene of every reaction labelled s.
C2_NothingOmitted ==
    SubsystemFileWritten =>
        /\ files.subsystem.exists
        /\ Len(files.subsystem.lines) = Len(written.subsystem)
        /\ \A i \in ReactionIds :
              model.reactions[i].genes # {} =>
                  \E k \in 1..Len(written.subsystem) :
                      /\ written.subsystem[k].name = model.reactions[i].subsystem
                      /\ model.reactions[i].genes \subseteq Range(written.subsystem[k].genes)
                      /\ files.subsystem.lines[k] =
                             MergedLine(written.subsystem[k].name, written.subsystem[k].genes)

\* Two reactions of one label with the gene sets {G1} and {G2} gave one
\* record with both genes.
C2_Witness ==
    /\ SubsystemFileWritten
    /\ model.reactions[1].subsystem = model.reactions[2].subsystem
    /\ model.reactions[1].genes = {<<"G1">>}
    /\ model.reactions[2].genes = {<<"G2">>}
    /\ \E rec \in Records("subsystem") :
          /\ rec.name = model.reactions[1].subsystem
          /\ Range(rec.genes) = {<<"G1">>, <<"G2">>}

\* The genes of every reaction that a metabolite named n, of any compartment,
\* takes part in.
GenesOfName(n) ==
    UNION {model.reactions[r].genes :
             r \in UNION {model.metabolites[i].reactions :
                            i \in {j \in MetaboliteIds : model.metabolites[j].name = n}}}

\* C3: after the Option 2 cells, every metabolite name of the model has
\* exactly one entry, and the gene list of the entry n holds exactly the
\* genes of the reactions of all metabolites named n.
C3_MergedByName ==
    pc = "met_filter" =>
        /\ Len(gene_assoc) = Len(metabolites)
        /\ \A i \in MetaboliteIds :
              Cardinality({k \in 1..Len(metabolites) :
                              metabolites[k] = model.metabolites[i].name}) = 1
        /\ \A k \in 1..Len(metabolites) :
              Range(gene_assoc[k]) = GenesOfName(metabolites[k])

\* One name in two compartments, over two reactions of different genes, gave
\* a single entry holding both genes.
C3_Witness ==
    /\ pc = "met_filter"
    /\ model.metabolites[1].name = model.metabolites[2].name
    /\ model.metabolites[1].compartment # model.metabolites[2].compartment
    /\ model.metabolites[1].reactions = {1}
    /\ model.metabolites[2].reactions = {2}
    /\ model.reactions[1].genes = {<<"G1">>}
    /\ model.reactions[2].genes = {<<"G2">>}
    /\ Len(metabolites) = 1
    /\ Range(gene_assoc[1]) = {<<"G1">>, <<"G2">>}

\* The Option 1 association cell has run: to its end, or to the TypeError
\* that stopped it.
Opt1AssocRan ==
    \/ pc = "opt2_names"
    \/ pc = "opt1_assoc" /\ err = "TypeError"

\* C4: after the Option 1 cells, the k-th entry is the k-th metabolite of
\* the model, named name[compartment], with exactly the genes of the
\* reactions that metabolite takes part in; same-named metabolites of
\* different compartments have different entries.
C4_CompartmentAware ==
    Opt1AssocRan =>
        /\ Len(metabolites) = Len(model.metabolites)
        /\ Len(gene_assoc) <= Len(metabolites)
        /\ pc = "opt2_names" => Len(gene_assoc) = Len(metabolites)
        /\ \A k \in 1..Len(metabolites) :
              metabolites[k] = model.metabolites[k].name \o <<"[">>
                                   \o model.metabolites[k].compartment \o <<"]">>
        /\ \A k \in 1..Len(gene_assoc) :
              Range(gene_assoc[k]) =
                  UNION {model.reactions[r].genes : r \in model.metabolites[k].reactions}
        /\ \A i, j \in MetaboliteIds :
              model.metabolites[i].compartment # model.metabolites[j].compartment
                  => metabolites[i] # metabolites[j]

\* One name in two compartments, over two reactions of different genes, gave
\* two entries of different names, each with its own gene.
C4_Witness ==
    /\ pc = "opt2_names"
    /\ model.metabolites[1].name = model.metabolites[2].name
    /\ model.metabolites[1].compartment # model.metabolites[2].compartment
    /\ model.metabolites[1].reactions = {1}
    /\ model.metabolites[2].reactions = {2}
    /\ model.reactions[1].genes = {<<"G1">>}
    /\ model.reactions[2].genes = {<<"G2">>}
    /\ metabolites[1] # metabolites[2]
    /\ gene_assoc = << << <<"G1">> >>, << <<"G2">> >> >>

\* C5: in both files every written record has at least one gene id, and
\* every gene id written is the id of a gene of the model.
C5_NonEmptyKnownGenes ==
    \A f \in FileNames : \A rec \in Records(f) :
        /\ rec.genes # <<>>
        /\ \A g \in Range(rec.genes) : g \in model.genes

\* Both files are written with records in them, and the metabolite file left
\* out a metabolite name whose reactions carry no gene.
C5_Witness ==
    /\ pc = "done"
    /\ Records("subsystem") # {}
    /\ Records("metabolite") # {}
    /\ \E i \in MetaboliteIds :
          /\ GenesOfName(model.metabolites[i].name) = {}
          /\ \A rec \in Records("metabolite") :
                rec.name # RemoveApostrophes(model.metabolites[i].name)

\* C6: in both files the name of every written record is non-empty and
\* holds no tab.
C6_NamesWellFormed ==
    \A f \in FileNames : \A rec \in Records(f) :
        /\ rec.name # <<>>
        /\ Tab \notin Range(rec.name)

\* C7: no two records of an output file have the same name.
C7_NoDuplicateNames ==
    \A f \in FileNames : \A i, j \in 1..Len(written[f]) :
        written[f][i].name = written[f][j].name => i = j

\* C8: each grouping mode yields exactly one entry per distinct group name:
\* subsystem labels, name[compartment] (Option 1), names (Option 2).
C8_OneEntryPerGroup ==
    /\ pc = "subsystem_filter" =>
          /\ NoDuplicates(subsystems)
          /\ Range(subsystems) = {model.reactions[i].subsystem : i \in ReactionIds}
    /\ pc = "opt1_assoc" =>
          /\ NoDuplicates(metabolites)
          /\ Range(metabolites) = {CompartmentName(model.metabolites[i]) : i \in MetaboliteIds}
    /\ pc = "opt2_assoc" =>
          /\ NoDuplicates(metabolites)
          /\ Range(metabolites) = {model.metabolites[i].name : i \in MetaboliteIds}

\* C9: no name written to either file holds an apostrophe.
C9_NoApostropheWritten ==
    \A f \in FileNames : \A rec \in Records(f) : Apostrophe \notin Range(rec.name)

\* C10: the sanitizer leaves a sanitized list of names as it is: whenever the
\* sanitizing cell has run, once or several times, running it again changes
\* no name.
C10_SanitizeIdempotent ==
    pc = "met_write" => SanitizeNames(metabolites) = metabolites

\* The sanitizing cell has run on a name holding an apostrophe, which is now
\* in the list without it.
C10_Witness ==
    /\ pc = "met_write"
    /\ \E i \in MetaboliteIds :
          /\ Apostrophe \in Range(model.metabolites[i].name)
          /\ model.metabolites[i].name \notin Range(metabolites)
          /\ RemoveApostrophes(model.metabolites[i].name) \in Range(metabolites)

----------------------------------------------------------------------------
(* Properties of the written files.                                        *)

\* Python s.split(sep) for a one-character sep.
RECURSIVE Split(_, _)
Split(x, sep) ==
    IF \E i \in 1..Len(x) : x[i] = sep
    THEN LET i == CHOOSE i \in 1..Len(x) : x[i] = sep /\ \A j \in 1..(i - 1) : x[j] # sep
         IN  <<SubSeq(x, 1, i - 1)>> \o Split(SubSeq(x, i + 1, Len(x)), sep)
    ELSE <<x>>

\* A line without its line end.
Chomp(line) ==
    IF line # <<>> /\ line[Len(line)] = Newline THEN SubSeq(line, 1, Len(line) - 1) ELSE line

\* The tab-separated fields of a line, as a reader of the file sees them.
Fields(line) == Split(Chomp(line), Tab)

\* A reader's record of a line: field 1 the name, fields 3..N the gene set.
ParseLine(line) ==
    [name |-> Fields(line)[1],
     genes |-> {Fields(line)[k] : k \in 3..Len(Fields(line))}]

\* The name-to-gene-set mapping of a list of (name, gene list) pairs.
Mapping(recs) == {[name |-> r.name, genes |-> Range(r.genes)] : r \in Range(recs)}

\* The write cell of file f has run in this run and written the file.
FileWritten(f) == IF f = "subsystem" THEN SubsystemFileWritten ELSE pc = "done"

\* C11: parsing a written file back (split each line on tab, field 1 the
\* name, fields 3..N the gene set) gives exactly the mapping that was written.
C11_RoundTrip ==
    \A f \in FileNames :
        FileWritten(f) =>
            {ParseLine(files[f].lines[k]) : k \in 1..Len(files[f].lines)} = Mapping(written[f])

\* C12: every written line is name, tab, na, tab, the gene ids separated by
\* single tabs, one newline; field 2 is na, the file has no header line, and
\* no line ends with a tab before its newline.
C12_LineLayout ==
    \A f \in FileNames :
        FileWritten(f) =>
            /\ Len(files[f].lines) = Len(written[f])
            /\ \A k \in 1..Len(files[f].lines) :
                  LET line == files[f].lines[k]
                      rec  == written[f][k]
                  IN  /\ line = rec.name \o <<Tab, "n", "a">>
                                    \o StrJoin(<<>>, [j \in 1..Len(rec.genes) |-> <<Tab>> \o rec.genes[j]])
                                    \o <<Newline>>
                      /\ Cardinality({j \in 1..Len(line) : line[j] = Newline}) = 1
                      /\ line[Len(line) - 1] # Tab
                      /\ Len(Fields(line)) >= 2
                      /\ Fields(line)[2] = <<"n", "a">>

\* C13: every written line has 2 + (number of genes of its group)
\* tab-separated fields.
C13_FieldCount ==
    \A f \in FileNames :
        FileWritten(f) =>
            \A k \in 1..Len(files[f].lines) :
                Len(Fields(files[f].lines[k])) = 2 + Cardinality(Range(written[f][k].genes))

\* C14: two runs on the same model write the gene ids of each record in the
\* same order.
C14_SameOrderEveryRun ==
    (run = 2 /\ pc = "done") =>
        \A f \in FileNames :
            /\ Len(written[f]) = Len(prev[f])
            /\ \A k \in 1..Len(written[f]) : written[f][k].genes = prev[f][k].genes

\* C15: a write step leaves in its file exactly the lines of this run's
\* records, nothing of what the file held before; a second run on the same
\* model leaves the same name-to-gene-set mapping in each file as the first.
C15_Overwrites ==
    /\ \A f \in FileNames :
          FileWritten(f) =>
              /\ files[f].exists
              /\ files[f].lines =
                     [k \in 1..Len(written[f]) |->
                         MergedLine(written[f][k].name, written[f][k].genes)]
    /\ (run = 2 /\ pc = "done") =>
          \A f \in FileNames : Mapping(written[f]) = Mapping(prev[f])

\* The second run has rewritten both files, which held the records of the
\* first run.
C15_Witness ==
    /\ run = 2 /\ pc = "done"
    /\ prev.subsystem # <<>> /\ prev.metabolite # <<>>
    /\ Records("subsystem") # {} /\ Records("metabolite") # {}

\* C16: without the destination directory a write step ends in
\* FileNotFoundError: no file is created, and the run goes no further than
\* the write cell that failed.
C16_MissingDirectoryFails ==
    ~dirExists =>
        /\ \A f \in FileNames : ~files[f].exists /\ written[f] = <<>>
        /\ pc \in {"subsystem_assoc", "subsystem_filter", "subsystem_write"}
        /\ err \in {"none", "FileNotFoundError"}
        /\ err = "FileNotFoundError" => pc = "subsystem_write"
        /\ (pc = "subsystem_write" /\ merged_list # <<>>) => err = "FileNotFoundError"

\* The write cell has built its lines and failed on the missing directory.
C16_Witness ==
    /\ ~dirExists
    /\ pc = "subsystem_write"
    /\ merged_list # <<>>
    /\ err = "FileNotFoundError"

\* C17: a metabolite without reactions does not stop the run: no cell ends
\* in the TypeError of a union over nothing.
C17_SkippedSilently ==
    (\E i \in MetaboliteIds : model.metabolites[i].reactions = {}) => err # "TypeError"

\* C18: no cell changes the model.
C18_ModelReadOnly == [][model' = model]_vars

\* Every cell has run, the sanitizing cell on a name with an apostrophe.
C18_Witness ==
    /\ pc = "done"
    /\ \E i \in MetaboliteIds :
          /\ Apostrophe \in Range(model.metabolites[i].name)
          /\ \E rec \in Records("metabolite") :
                rec.name = RemoveApostrophes(model.metabolites[i].name)

\* C19: within one written record every gene id appears at most once.
C19_GenesOnce ==
    \A f \in FileNames : \A rec \in Records(f) : NoDuplicates(rec.genes)

\* A gene of two reactions, which two same-named metabolites take part in,
\* is on the record of that name.
C19_Witness ==
    /\ pc = "done"
    /\ model.metabolites[1].name = model.metabolites[2].name
    /\ model.metabolites[1].reactions = {1}
    /\ model.metabolites[2].reactions = {2}
    /\ \E g \in model.reactions[1].genes \cap model.reactions[2].genes :
          \E rec \in Records("metabolite") :
              /\ rec.name = RemoveApostrophes(model.metabolites[1].name)
              /\ g \in Range(rec.genes)

\* A filter cell runs to its end.
FilterStep == pc \in {"subsystem_filter", "met_filter"} /\ pc' # pc

\* The indices of the groups with a gene.
WithGenes(assoc) == {i \in 1..Len(assoc) : assoc[i] # <<>>}

\* names2 and assoc2 are names and assoc without the groups that have no
\* gene, in the same order and still paired.
FilteredPaired(names, assoc, names2, assoc2) ==
    /\ Len(names2) = Len(assoc2)
    /\ Len(names2) = Cardinality(WithGenes(assoc))
    /\ \E idx \in [1..Len(names2) -> WithGenes(assoc)] :
          /\ \A j, k \in 1..Len(names2) : j < k => idx[j] < idx[k]
          /\ \A k \in 1..Len(names2) :
                names2[k] = names[idx[k]] /\ assoc2[k] = assoc[idx[k]]

\* C20: a filter cell, given as many gene lists as names, leaves as many
\* gene lists as names, each name with its own gene list, in the old order,
\* and drops exactly the groups whose gene list is empty.
C20_FilterKeepsPairs ==
    [][FilterStep =>
          IF pc = "subsystem_filter"
          THEN Len(subsystems) = Len(gene_assoc)
                   => FilteredPaired(subsystems, gene_assoc, subsystems', gene_assoc')
          ELSE Len(metabolites) = Len(gene_assoc)
                   => FilteredPaired(metabolites, gene_assoc, metabolites', gene_assoc')]_vars

\* The metabolite filter has dropped one of two names and kept the other.
C20_Witness ==
    /\ pc = "met_sanitize"
    /\ model.metabolites[1].name # model.metabolites[2].name
    /\ Len(metabolites) = 1
    /\ Len(gene_assoc) = 1

----------------------------------------------------------------------------
(* Cells run by hand, and the order of the stages.                         *)

\* The genes of the reactions the i-th metabolite of the model takes part in.
GenesOfMetabolite(i) ==
    UNION {model.reactions[r].genes : r \in model.metabolites[i].reactions}

\* The record joins a name with the genes computed for a metabolite of that
\* name: name[compartment] with that metabolite's genes, or the bare name
\* with the genes of all metabolites of that name (apostrophes removed).
JoinsOwnGenes(rec) ==
    \E i \in MetaboliteIds :
        \/ /\ rec.name = RemoveApostrophes(CompartmentName(model.metabolites[i]))
           /\ Range(rec.genes) = GenesOfMetabolite(i)
        \/ /\ rec.name = RemoveApostrophes(model.metabolites[i].name)
           /\ Range(rec.genes) = GenesOfName(model.metabolites[i].name)

\* C21: whichever of the four metabolite cells were run by hand, and in
\* whatever order, before the filter, sanitize and write cells, every record
\* the metabolite write cell writes joins a name with the gene list computed
\* for a metabolite of that name.
C21_ManualAligned ==
    \A k \in 1..Len(written.metabolite) : JoinsOwnGenes(written.metabolite[k])

\* The names of the model's metabolites, in model order.
ModelNames == [i \in 1..Len(model.metabolites) |-> model.metabolites[i].name]

\* The name ends in [compartment], as the Option 1 cell builds names.
HasCompartmentTag(name) ==
    \E c \in Compartments :
        LET tag == <<"[">> \o c \o <<"]">>
        IN  /\ Len(name) >= Len(tag)
            /\ SubSeq(name, Len(name) - Len(tag) + 1, Len(name)) = tag

\* C22: in a top-to-bottom run the Option 1 names and gene lists are replaced
\* before the filter runs (the filter meets the sorted distinct names, each
\* with the genes of all metabolites of that name), and the metabolite file
\* holds that merged mapping only: every record is a name with the genes of
\* all metabolites of that name, and no written name ends in [compartment].
C22_Option2Only ==
    /\ pc \in {"opt2_assoc", "met_filter"} => metabolites = NpUnique(ModelNames)
    /\ pc = "met_filter" =>
          /\ Len(gene_assoc) = Len(metabolites)
          /\ \A k \in 1..Len(metabolites) :
                Range(gene_assoc[k]) = GenesOfName(metabolites[k])
    /\ pc = "done" =>
          /\ files.metabolite.exists
          /\ files.metabolite.lines =
                [k \in 1..Len(written.metabolite) |->
                    MergedLine(written.metabolite[k].name, written.metabolite[k].genes)]
          /\ \A k \in 1..Len(written.metabolite) :
                LET rec == written.metabolite[k]
                IN  /\ ~HasCompartmentTag(rec.name)
                    /\ \E i \in MetaboliteIds :
                          /\ rec.name = RemoveApostrophes(model.metabolites[i].name)
                          /\ Range(rec.genes) = GenesOfName(model.metabolites[i].name)

\* A finished run on two same-named metabolites of different compartments,
\* with different genes: one record, without a tag, holds both genes.
C22_Witness ==
    /\ pc = "done"
    /\ model.metabolites[1].name = <<"a">>
    /\ model.metabolites[2].name = <<"a">>
    /\ model.metabolites[1].compartment # model.metabolites[2].compartment
    /\ model.metabolites[1].reactions = {1}
    /\ model.metabolites[2].reactions = {2}
    /\ model.reactions[1].genes = {<<"G1">>}
    /\ model.reactions[2].genes = {<<"G2">>}
    /\ Len(written.metabolite) = 1
    /\ written.metabolite[1].name = <<"a">>
    /\ Range(written.metabolite[1].genes) = {<<"G1">>, <<"G2">>}
    /\ Len(files.metabolite.lines) = 1

\* The cell that writes file f, and the names it joins.
WritePc(f) == IF f = "subsystem" THEN "subsystem_write" ELSE "met_write"

NamesOf(f) == IF f = "subsystem" THEN subsystems ELSE metabolites

\* C23: an output file changes only in a step of its write cell that has
\* built every line (one per name) before it opened the file, and then the
\* file holds exactly those lines; a step that ends in an exception, in
\* extraction, filtering or the building of the lines, leaves both files as
\* they were.
C23_BuiltBeforeOpened ==
    [][ /\ \A f \in FileNames :
              files'[f] # files[f] =>
                  /\ pc = WritePc(f)
                  /\ err' = "none"
                  /\ Len(merged_list') = Len(NamesOf(f))
                  /\ files'[f] = [exists |-> TRUE, lines |-> merged_list']
        /\ err' # "none" => files' = files ]_vars

\* The filter cell raised IndexError (names bound by hand, gene lists too
\* few) and the old metabolite file is still there.
C23_Witness ==
    /\ err = "IndexError"
    /\ pc = MetSection
    /\ Len(gene_assoc) < Len(metabolites)
    /\ files.metabolite = [exists |-> TRUE, lines |-> StaleLines]
    /\ files.subsystem.lines # StaleLines

\* The run is in the metabolite section: a metabolite cell is the next to
\* run, or is the cell that raised.
InMetaboliteStage ==
    pc \in {"opt1_names", "opt1_assoc", "opt2_names", "opt2_assoc",
            "met_filter", "met_sanitize", "met_write"}

\* C24: in a top-to-bottom run nothing of the metabolite stage is computed
\* before the subsystem file is written; while the run is in the metabolite
\* stage, and when it stops there with an error, the subsystem file holds
\* exactly the lines of this run's subsystem records and the metabolite file
\* is as it was before the run.
C24_SubsystemFileFirst ==
    /\ ~SubsystemFileWritten => metabolites = <<>> /\ written.metabolite = <<>>
    /\ SubsystemFileWritten =>
          /\ Len(written.subsystem) = Len(subsystems)
          /\ \A k \in 1..Len(subsystems) : written.subsystem[k].name = subsystems[k]
          /\ files.subsystem =
                [exists |-> TRUE,
                 lines |-> [k \in 1..Len(written.subsystem) |->
                              MergedLine(written.subsystem[k].name, written.subsystem[k].genes)]]
    /\ InMetaboliteStage =>
          /\ written.metabolite = <<>>
          /\ files.metabolite \in {Absent, [exists |-> TRUE, lines |-> StaleLines]}

\* The run stopped in the metabolite stage (a metabolite without reactions):
\* this run's subsystem record is on disk, the old metabolite file is kept.
C24_Witness ==
    /\ pc = "opt1_assoc"
    /\ err = "TypeError"
    /\ Len(files.subsystem.lines) = 1
    /\ files.subsystem.lines # StaleLines
    /\ files.metabolite = [exists |-> TRUE, lines |-> StaleLines]

\* The names the subsystem write cell joined are strictly ascending (by code
\* point), and the file has one line per record, in that order.
WrittenNamesAscending ==
    SubsystemFileWritten =>
        /\ Len(files.subsystem.lines) = Len(written.subsystem)
        /\ \A k \in 1..Len(written.subsystem) :
              files.subsystem.lines[k] =
                  MergedLine(written.subsystem[k].name, written.subsystem[k].genes)
        /\ \A k \in 1..(Len(written.subsystem) - 1) :
              StrLess(written.subsystem[k].name, written.subsystem[k + 1].name)

\* The name field of a line of a file: its first tab-separated field.
NameField(line) == Fields(line)[1]

\* C25: the records of the subsystem file are in strictly ascending order of
\* their name field (by code point), so that no two records of the file share
\* a name.
C25_SubsystemAscending ==
    SubsystemFileWritten =>
        /\ WrittenNamesAscending
        /\ \A k \in 1..(Len(files.subsystem.lines) - 1) :
              StrLess(NameField(files.subsystem.lines[k]),
                      NameField(files.subsystem.lines[k + 1]))

----------------------------------------------------------------------------
(* Termination.                                                            *)

\* The run has ended: both files written, or a cell has raised.
Ended ==
    \/ pc = "done" /\ files.subsystem.exists /\ files.metabolite.exists
    \/ err # "none"

\* C26: a top-to-bottom run, the loops of the association cells taken one
\* group at a time, eventually ends and stays ended: both files are written,
\* or a cell has raised.
C26_RunEnds == <>[]Ended

\* A run that ended with both files written, after a metabolite loop of two
\* turns.
C26_Witness ==
    /\ pc = "done"
    /\ Len(written.subsystem) = 1
    /\ Len(written.metabolite) = 2
    /\ files.subsystem.exists
    /\ files.metabolite.exists

----------------------------------------------------------------------------
(* Paired samples.                                                         *)

\* The number of samples of a type that a subject has in the query results.
SamplesOf(q, subject, type) ==
    Cardinality({i \in 1..Len(q) : q[i].submitter_id = subject /\ q[i].sample_type = type})

\* C27: the query results hold samples of the types Primary Tumor and Solid
\* Tissue Normal only, and the barcodes selected are those of exactly the
\* samples whose subject has exactly one Primary Tumor sample and exactly one
\* Solid Tissue Normal sample in the results.
C27_PairedExactly ==
    tcga.at = "done" =>
        /\ \A i \in 1..Len(tcga.q) :
              tcga.q[i].sample_type \in {PrimaryTumor, SolidTissueNormal}
        /\ \A i \in 1..Len(tcga.q) :
              tcga.q[i].cases \in Range(tcga.barcodes) <=>
                  /\ SamplesOf(tcga.q, tcga.q[i].submitter_id, PrimaryTumor) = 1
                  /\ SamplesOf(tcga.q, tcga.q[i].submitter_id, SolidTissueNormal) = 1
        /\ Range(tcga.barcodes) \subseteq {tcga.q[i].cases : i \in 1..Len(tcga.q)}

\* One subject with two tumor samples and a normal one, whose barcodes are
\* not selected, and one subject with one of each, whose barcodes are.
C27_Witness ==
    /\ tcga.at = "done"
    /\ Len(tcga.q) = 5
    /\ SamplesOf(tcga.q, 1, PrimaryTumor) = 2
    /\ SamplesOf(tcga.q, 1, SolidTissueNormal) = 1
    /\ SamplesOf(tcga.q, 2, PrimaryTumor) = 1
    /\ SamplesOf(tcga.q, 2, SolidTissueNormal) = 1
    /\ Len(tcga.barcodes) = 2

====
